---------------------------- MODULE Spec2Model ----------------------------
(***************************************************************************)
(* validate-env-vars-webpack-plugin (src/index.js).                        *)
(*                                                                         *)
(* One plugin instance and one build of the host (webpack): the            *)
(* constructor, apply(), the beforeCompile hook with its bail timer, the   *)
(* SecretsManager callback, the parser's MemberExpression visitor and the  *)
(* afterCompile hook.                                                      *)
(*                                                                         *)
(* JavaScript strings are sequences of characters, so that startsWith,     *)
(* String.replace(/^process\.env\./, "") and RegExp.test are computed and  *)
(* not assumed.  A RegExp is a literal source with an optional ^ anchor    *)
(* and an optional g flag; with the g flag test() reads and writes the     *)
(* object's lastIndex, as in the language.                                 *)
(***************************************************************************)
EXTENDS Integers, Sequences, FiniteSets, TLC

\* ------------------------------------------------------------------ bounds
\* number of MemberExpression visits (scan events) of the build
MaxEvents == 2

\* ----------------------------------------------------------------- strings
Qualifier == <<"p","r","o","c","e","s","s",".","e","n","v",".">>

ENV_A    == <<"A">>
ENV_B    == <<"B">>
FOO      == <<"F","O","O">>
BAR_BAZ  == <<"B","A","R","_","B","A","Z">>
UNKNOWN  == <<"U","N","K">>
BAR_     == <<"B","A","R","_">>

P_SRC      == <<"/","s","r","c">>
P_SRC_GEN  == <<"/","s","r","c","/","g","e","n">>
P_NOT      == <<"/","n","o","t">>
M_SRC_X    == <<"/","s","r","c","/","x">>
M_SRC_GENX == <<"/","s","r","c","/","g","e","n","/","x">>
M_LIB_X    == <<"/","l","i","b","/","x">>

\* the names the walker can report, and the modules it can report them from
EventNames == {ENV_A, FOO, BAR_BAZ, UNKNOWN}
ModulePaths == {M_SRC_X, M_SRC_GENX, M_LIB_X}

\* String.prototype.startsWith
startsWith(input, check) ==
    /\ Len(check) <= Len(input)
    /\ SubSeq(input, 1, Len(check)) = check

\* input.replace(/^process\.env\./, "")
stripProcessEnv(s) ==
    IF startsWith(s, Qualifier) THEN SubSeq(s, Len(Qualifier) + 1, Len(s)) ELSE s

\* ------------------------------------------------------------------ RegExp
RegExp(src, anch, g) == [type |-> "RegExp", source |-> src, anchored |-> anch, global |-> g]
Str(s) == [type |-> "string", value |-> s]
Other == [type |-> "other"]

\* 0-based positions from which `source` occurs in `input`, at or after `from`
matchPositions(re, input, from) ==
    {j \in from .. (Len(input) - Len(re.source)) :
        /\ SubSeq(input, j + 1, j + Len(re.source)) = re.source
        /\ (re.anchored => j = 0)}

Min(S) == CHOOSE x \in S : \A y \in S : x <= y

\* RegExp.prototype.test: the result and the object's lastIndex afterwards.
\* Without the g flag the search starts at 0 and lastIndex is left alone.
regexTest(re, input, lastIndex) ==
    LET from == IF re.global THEN lastIndex ELSE 0
        pos  == IF from > Len(input) THEN {} ELSE matchPositions(re, input, from)
    IN  IF pos = {}
        THEN [result |-> FALSE, lastIndex |-> IF re.global THEN 0 ELSE lastIndex]
        ELSE [result |-> TRUE,
              lastIndex |-> IF re.global THEN Min(pos) + Len(re.source) ELSE lastIndex]


\* ------------------------------------------------------------------ errors
NoError == [name |-> "none", message |-> <<>>]

\* class BadArgsError
BadArgsError(message) == [name |-> "ValidateEnvVarsPluginBadArgsError", message |-> message]

\* class UnrecognisedEnvVarError: the template literal and the module back-reference
UnrecognisedEnvVarError(envVar, module) ==
    [name |-> "UnrecognisedEnvVarError",
     message |-> <<"Unrecognised environment variable: ">> \o envVar,
     module |-> module]

TimeoutError == [name |-> "Error", message |-> <<"ValidateEnvVars", " timed out resolving known env vars">>]
AwsError == [name |-> "AWSError", message |-> <<"AccessDeniedException">>]
SecretStringError ==
    [name |-> "SyntaxError",
     message |-> <<"ValidateEnvVars", " failed parsing SecretString: ", "Unexpected token">>]
TypeError == [name |-> "TypeError", message |-> <<"Cannot read property 'includes' of undefined">>]

\* ------------------------------------------------- external source (AWS) check
AWSRequired == <<"region", "secretId", "secretAccessKey", "accessKeyId">>
AWSOptional == {"sessionToken", "secretVersionId", "secretVersionStage"}

Range(seq) == {seq[i] : i \in 1 .. Len(seq)}

\* hasPartialProperties with every in place of some
hasPartialProperties_every(object, properties) ==
    \A k \in DOMAIN object : k \in Range(properties)

\* Object.keys(object).some((k) => properties.includes(k))
hasPartialProperties(object, properties) ==
    \E k \in DOMAIN object : k \in Range(properties)

\* properties.every((k) => objKeys.includes(k))
hasAllProperties(object, properties) ==
    \A k \in Range(properties) : k \in DOMAIN object

RECURSIVE joinQuoted(_, _)
joinQuoted(arr, i) ==
    IF i > Len(arr) THEN <<>>
    ELSE (IF i > 1 THEN <<", ">> ELSE <<>>) \o <<"'", arr[i], "'">> \o joinQuoted(arr, i + 1)

\* arr.map((value) => `'${value}'`).join(", ")
toQuotedStringList(arr) == joinQuoted(arr, 1)

\* !(typeof input[k] === "string") || !input[k].length
isStringFieldWithoutLength(v) == v.type # "string" \/ Len(v.value) = 0

\* the function createExternalSourceCheck returns, applied to `input`:
\* [throws, error, result]
createExternalSourceCheck(sourceName, sourceRequiredInputProperties, input) ==
    IF input.type # "object"
    THEN [throws |-> FALSE, error |-> NoError, result |-> FALSE]
    ELSE
      LET requiredPropsList == toQuotedStringList(sourceRequiredInputProperties)
          bad == {i \in 1 .. Len(sourceRequiredInputProperties) :
                     isStringFieldWithoutLength(input.props[sourceRequiredInputProperties[i]])}
      IN  IF hasAllProperties(input.props, sourceRequiredInputProperties)
          THEN IF bad # {}
               THEN [throws |-> TRUE,
                     error |-> BadArgsError(
                        <<"bad ", sourceName, " source configuration (missing value for property '",
                          sourceRequiredInputProperties[Min(bad)], "')">>),
                     result |-> FALSE]
               ELSE [throws |-> FALSE, error |-> NoError, result |-> TRUE]
          ELSE IF hasPartialProperties(input.props, sourceRequiredInputProperties)
               THEN [throws |-> TRUE,
                     error |-> BadArgsError(
                        <<"bad ", sourceName, " source configuration (requires properties: ">>
                        \o requiredPropsList \o <<")">>),
                     result |-> FALSE]
               ELSE [throws |-> FALSE, error |-> NoError, result |-> FALSE]

isAWSSecretsManagerSource(input) ==
    createExternalSourceCheck("AWS SecretsManager", AWSRequired, input)

\* ------------------------------------------------------------- environment
\* Object.keys(process.env) when the plugin is constructed
ProcessEnvKeys == <<ENV_A>>

\* the file system: the .env file that exists, as its KEY=VALUE lines
ENV_FILE == <<".","e","n","v">>
NO_FILE  == <<".","n","o">>
EnvFileLines == <<[key |-> ENV_A, value |-> <<"1">>], [key |-> ENV_B, value |-> <<"2">>]>>
existsSync(path) == path = ENV_FILE

\* Object.keys(require("dotenv").parse(buffer))
dotenvKeys(lines) == [i \in 1 .. Len(lines) |-> lines[i].key]

\* ----------------------------------------------------------------- promises
Pending == [state |-> "pending", value |-> <<>>, reason |-> NoError]
Fulfilled(v) == [state |-> "fulfilled", value |-> v, reason |-> NoError]
Rejected(e) == [state |-> "rejected", value |-> <<>>, reason |-> e]

\* _processKnownEnvVars: [throws, error, promise, request]; request is TRUE
\* when getAWSSecretsManagerEnvVarNames issued SecretsManager.getSecretValue
processKnownEnvVars(opt) ==
    LET ret(p) == [throws |-> FALSE, error |-> NoError, promise |-> p, request |-> FALSE]
        thr(e) == [throws |-> TRUE, error |-> e, promise |-> Pending, request |-> FALSE]
    IN  CASE opt.type = "undefined" -> ret(Fulfilled(ProcessEnvKeys))
          [] opt.type = "array" ->
               IF \E i \in 1 .. Len(opt.elems) : opt.elems[i].type # "string"
               THEN thr(BadArgsError(
                      <<"bad env vars source configuration (got array, but expected all elements to be string)">>))
               ELSE ret(Fulfilled([i \in 1 .. Len(opt.elems) |-> stripProcessEnv(opt.elems[i].value)]))
          [] opt.type = "string" ->
               IF ~existsSync(opt.value)
               THEN thr(BadArgsError(
                      <<"bad env vars source configuration (got string, but no file exists at path)">>))
               ELSE ret(Fulfilled(dotenvKeys(EnvFileLines)))
          [] OTHER ->
               LET c == isAWSSecretsManagerSource(opt)
               IN  IF c.throws THEN thr(c.error)
                   ELSE IF c.result
                   THEN [throws |-> FALSE, error |-> NoError, promise |-> Pending, request |-> TRUE]
                   ELSE thr(BadArgsError(<<"bad env vars source configuration (refer to documentation)">>))

\* --------------------------------------------------- String|RegExp[] inputs
\* _processStringOrRegexArrayInput: [throws, error, checks]; a check is the
\* entry together with the stringCheck callback it was compiled with
processStringOrRegexArrayInput(name, arr, stringCheck) ==
    CASE arr.type = "undefined" -> [throws |-> FALSE, error |-> NoError, checks |-> <<>>]
      [] arr.type # "array" ->
           [throws |-> TRUE, error |-> BadArgsError(<<"expected ", name, " to be String|RegExp[]">>),
            checks |-> <<>>]
      [] OTHER ->
           IF \E i \in 1 .. Len(arr.elems) : arr.elems[i].type \notin {"RegExp", "string"}
           THEN [throws |-> TRUE,
                 error |-> BadArgsError(<<"expecting ", "value", " to be [String|RegExp]">>),
                 checks |-> <<>>]
           ELSE [throws |-> FALSE, error |-> NoError,
                 checks |-> [i \in 1 .. Len(arr.elems) |->
                                [entry |-> arr.elems[i], stringCheck |-> stringCheck]]]

\* (check, input) => check === input.replace(/^process\.env\./, "")
ignoreStringCheck(check, input) == check = stripProcessEnv(input)

\* (check, input) => input.startsWith(check)
pathStringCheck(check, input) == startsWith(input, check)

\* one compiled BooleanCheckFunc applied to input: [result, lastIndex]
applyCheck(c, input, lastIndex) ==
    IF c.entry.type = "RegExp"
    THEN regexTest(c.entry, input, lastIndex)
    ELSE [result |-> IF c.stringCheck = "ignoreEnvVars"
                     THEN ignoreStringCheck(c.entry.value, input)
                     ELSE pathStringCheck(c.entry.value, input),
          lastIndex |-> lastIndex]

\* Array.prototype.some over compiled checks, left to right, stopping at the
\* first check that returns true: [result, lastIndex (of every check)]
RECURSIVE someFrom(_, _, _, _)
someFrom(checks, li, input, i) ==
    IF i > Len(checks) THEN [result |-> FALSE, lastIndex |-> li]
    ELSE LET r == applyCheck(checks[i], input, li[i])
             li2 == [li EXCEPT ![i] = r.lastIndex]
         IN  IF r.result THEN [result |-> TRUE, lastIndex |-> li2]
             ELSE someFrom(checks, li2, input, i + 1)

some(checks, li, input) == someFrom(checks, li, input, 1)

\* ------------------------------------------------------------------- options
Undefined == [type |-> "undefined"]
Arr(elems) == [type |-> "array", elems |-> elems]
Path(p) == [type |-> "string", value |-> p]
Obj(props) == [type |-> "object", props |-> props]
Val == Str(<<"v">>)

\* a SecretsManager descriptor holding the keys `keys`, each a non-empty string
Descriptor(keys) == Obj([k \in keys |-> Val])

KnownEnvVarsOptions ==
    { Undefined,
      Arr(<<Str(ENV_A)>>),
      Arr(<<Str(Qualifier \o ENV_A), Str(ENV_B)>>),
      Arr(<<>>),
      Arr(<<Str(ENV_A), Other>>),
      Path(ENV_FILE),
      Path(NO_FILE),
      Other,
      Descriptor({"sessionToken"}),
      Descriptor({"region", "secretId", "sessionToken"}),
      Obj([k \in Range(AWSRequired) |-> IF k = "secretId" THEN Str(<<>>) ELSE Val]),
      Obj([k \in Range(AWSRequired) |-> IF k = "accessKeyId" THEN Other ELSE Val]) }
    \cup { Descriptor(ks) : ks \in SUBSET Range(AWSRequired) }

Num(n) == [type |-> "number", value |-> n]
KnownEnvVarsTimeoutOptions == {Undefined, Num(2000)}

IncludePathsOptions ==
    { Undefined,
      Arr(<<Str(P_SRC)>>),
      Arr(<<Str(P_NOT)>>),
      Arr(<<RegExp(P_SRC, TRUE, FALSE)>>),
      Arr(<<RegExp(P_SRC, FALSE, TRUE)>>) }

ExcludePathsOptions ==
    { Undefined,
      Arr(<<Str(P_SRC_GEN)>>),
      Arr(<<Other>>) }

IgnoreEnvVarsOptions ==
    { Undefined,
      Arr(<<Str(FOO), RegExp(BAR_, TRUE, FALSE)>>),
      Arr(<<RegExp(BAR_, FALSE, TRUE)>>),
      Arr(<<Str(Qualifier \o FOO)>>),
      Str(FOO) }

\* what SecretsManager.getSecretValue can call back with
AwsOutcomes ==
    { [kind |-> "err", keys |-> <<>>],
      [kind |-> "data", keys |-> <<ENV_A, ENV_B>>],
      [kind |-> "malformed", keys |-> <<>>] }

\* -------------------------------------------------------------------- state
VARIABLES
    options,                   \* the constructor's argument
    phase,                     \* where the build is: "new", "threw", "constructed",
                               \* "applied", "beforeCompile", "parsing", "done"
    thrown,                    \* what the constructor threw
    knownEnvVarsTimeout,       \* this.knownEnvVarsTimeout
    this_knownEnvVars,         \* this.knownEnvVars, a promise
    foundUnrecognisedEnvVars,  \* the Map, as its entries in insertion order
    ignoreEnvVars,             \* this.ignoreEnvVars
    includePaths,              \* this.includePaths
    excludePaths,              \* this.excludePaths
    lastIndex,                 \* lastIndex of the RegExp of every compiled check
    knownEnvVars,              \* the `let knownEnvVars` of apply()
    bailTimeout,               \* the timer behind bailTimeoutId: [state, delay]
    hookPromise,               \* the promise the beforeCompile tap returned
    process,                   \* "running" or "exited"
    uncaught,                  \* errors that reached uncaughtException / unhandledRejection
    getSecretValue,            \* [calls, pending]: SecretsManager requests issued / outstanding
    errors,                    \* compilation.errors
    scanned                    \* the accesses the walker has visited: [name, module]

vars == <<options, phase, thrown, knownEnvVarsTimeout, this_knownEnvVars,
          foundUnrecognisedEnvVars, ignoreEnvVars, includePaths, excludePaths,
          lastIndex, knownEnvVars, bailTimeout, hookPromise, process, uncaught,
          getSecretValue, errors, scanned>>

NotSet == [defined |-> FALSE, value |-> <<>>]
Zeros(checks) == [i \in 1 .. Len(checks) |-> 0]

Init ==
    /\ options \in [knownEnvVars : KnownEnvVarsOptions,
                    knownEnvVarsTimeout : KnownEnvVarsTimeoutOptions,
                    ignoreEnvVars : IgnoreEnvVarsOptions,
                    includePaths : IncludePathsOptions,
                    excludePaths : ExcludePathsOptions]
    /\ phase = "new"
    /\ thrown = NoError
    /\ knownEnvVarsTimeout = 0
    /\ this_knownEnvVars = Pending
    /\ foundUnrecognisedEnvVars = <<>>
    /\ ignoreEnvVars = <<>>
    /\ includePaths = <<>>
    /\ excludePaths = <<>>
    /\ lastIndex = [ignoreEnvVars |-> <<>>, includePaths |-> <<>>, excludePaths |-> <<>>]
    /\ knownEnvVars = NotSet
    /\ bailTimeout = [state |-> "none", delay |-> 0]
    /\ hookPromise = "none"
    /\ process = "running"
    /\ uncaught = <<>>
    /\ getSecretValue = [calls |-> 0, pending |-> FALSE]
    /\ errors = <<>>
    /\ scanned = <<>>

\* -------------------------------------------------------------- the Map
has(map, key) == \E i \in 1 .. Len(map) : map[i].name = key

\* Map.prototype.set: a present key keeps its place and takes the new value
set(map, key, value) ==
    IF has(map, key)
    THEN [i \in 1 .. Len(map) |-> IF map[i].name = key THEN [name |-> key, module |-> value] ELSE map[i]]
    ELSE Append(map, [name |-> key, module |-> value])

\* Array.prototype.includes
includes(arr, x) == \E i \in 1 .. Len(arr) : arr[i] = x

\* ------------------------------------------- variants of _isRecognisedEnvVar
\* the decision without the knownEnvVars.includes(envVar) rule
isRecognisedEnvVar_noKnown(known, envVar, modulePath) ==
    LET inc == some(includePaths, lastIndex.includePaths, modulePath)
        exc == some(excludePaths, lastIndex.excludePaths, modulePath)
        ign == some(ignoreEnvVars, lastIndex.ignoreEnvVars, envVar)
    IN  [result |-> has(foundUnrecognisedEnvVars, envVar) \/ ~inc.result \/ exc.result \/ ign.result,
         lastIndex |-> lastIndex]

\* the decision without the includePaths rule
isRecognisedEnvVar_noInclude(known, envVar, modulePath) ==
    LET exc == some(excludePaths, lastIndex.excludePaths, modulePath)
        ign == some(ignoreEnvVars, lastIndex.ignoreEnvVars, envVar)
    IN  [result |-> includes(known, envVar) \/ has(foundUnrecognisedEnvVars, envVar)
                    \/ exc.result \/ ign.result,
         lastIndex |-> lastIndex]

\* the decision without the excludePaths rule
isRecognisedEnvVar_noExclude(known, envVar, modulePath) ==
    LET inc == some(includePaths, lastIndex.includePaths, modulePath)
        ign == some(ignoreEnvVars, lastIndex.ignoreEnvVars, envVar)
    IN  [result |-> includes(known, envVar) \/ has(foundUnrecognisedEnvVars, envVar)
                    \/ ~inc.result \/ ign.result,
         lastIndex |-> lastIndex]

\* the decision without the foundUnrecognisedEnvVars.has(envVar) rule
isRecognisedEnvVar_noSeen(known, envVar, modulePath) ==
    LET inc == some(includePaths, lastIndex.includePaths, modulePath)
        exc == some(excludePaths, lastIndex.excludePaths, modulePath)
        ign == some(ignoreEnvVars, lastIndex.ignoreEnvVars, envVar)
    IN  [result |-> includes(known, envVar) \/ ~inc.result \/ exc.result \/ ign.result,
         lastIndex |-> lastIndex]

\* ------------------------------------------------------ _isRecognisedEnvVar
\* [result, lastIndex]: the decision, and lastIndex of the checks it evaluated
isRecognisedEnvVar(known, envVar, modulePath) ==
    LET inc == some(includePaths, lastIndex.includePaths, modulePath)
        exc == some(excludePaths, lastIndex.excludePaths, modulePath)
        ign == some(ignoreEnvVars, lastIndex.ignoreEnvVars, envVar)
        li1 == [lastIndex EXCEPT !.includePaths = inc.lastIndex]
        li2 == [li1 EXCEPT !.excludePaths = exc.lastIndex]
        li3 == [li2 EXCEPT !.ignoreEnvVars = ign.lastIndex]
    IN  IF includes(known, envVar) THEN [result |-> TRUE, lastIndex |-> lastIndex]
        ELSE IF has(foundUnrecognisedEnvVars, envVar) THEN [result |-> TRUE, lastIndex |-> lastIndex]
        ELSE IF ~inc.result THEN [result |-> TRUE, lastIndex |-> li1]
        ELSE IF exc.result THEN [result |-> TRUE, lastIndex |-> li2]
        ELSE IF ign.result THEN [result |-> TRUE, lastIndex |-> li3]
        ELSE [result |-> FALSE, lastIndex |-> li3]

\* -------------------------------------------------------------- constructor
Constructor ==
    /\ phase = "new"
    /\ LET k   == processKnownEnvVars(options.knownEnvVars)
           ign == processStringOrRegexArrayInput("ignoreEnvVars", options.ignoreEnvVars, "ignoreEnvVars")
           inc == processStringOrRegexArrayInput("includePaths", options.includePaths, "startsWith")
           exc == processStringOrRegexArrayInput("excludePaths", options.excludePaths, "startsWith")
           err == IF k.throws THEN k.error
                  ELSE IF ign.throws THEN ign.error
                  ELSE IF inc.throws THEN inc.error
                  ELSE IF exc.throws THEN exc.error
                  ELSE NoError
       IN  /\ knownEnvVarsTimeout' = 5000
           /\ thrown' = err
           /\ phase' = IF err = NoError THEN "constructed" ELSE "threw"
           /\ this_knownEnvVars' = k.promise
           /\ getSecretValue' = IF k.request THEN [calls |-> 1, pending |-> TRUE] ELSE getSecretValue
           /\ ignoreEnvVars' = IF k.throws THEN <<>> ELSE ign.checks
           /\ includePaths' = IF k.throws \/ ign.throws THEN <<>> ELSE inc.checks
           /\ excludePaths' = IF k.throws \/ ign.throws \/ inc.throws THEN <<>> ELSE exc.checks
           /\ lastIndex' = [ignoreEnvVars |-> Zeros(ignoreEnvVars'),
                            includePaths |-> Zeros(includePaths'),
                            excludePaths |-> Zeros(excludePaths')]
    /\ UNCHANGED <<options, foundUnrecognisedEnvVars, knownEnvVars, bailTimeout, hookPromise,
                   process, uncaught, errors, scanned>>

\* apply(compiler): the taps are registered; nothing runs yet
Apply ==
    /\ phase = "constructed"
    /\ phase' = "applied"
    /\ UNCHANGED <<options, thrown, knownEnvVarsTimeout, this_knownEnvVars,
                   foundUnrecognisedEnvVars, ignoreEnvVars, includePaths, excludePaths,
                   lastIndex, knownEnvVars, bailTimeout, hookPromise, process, uncaught,
                   getSecretValue, errors, scanned>>

\* ------------------------------------------------------ beforeCompile hook
\* clearTimeout left out: the timer stays as it is
clearTimeout_noop(t) == t

\* clearTimeout(bailTimeoutId): a timer that already ran is left as it is
clearTimeout(t) == IF t.state = "armed" THEN [t EXCEPT !.state = "cleared"] ELSE t

\* the reactions with resolve() called without the assignment to knownEnvVars
Reactions_resolveOnly(p, timer, exits) ==
    /\ bailTimeout' = clearTimeout(timer)
    /\ IF p.state = "fulfilled"
       THEN /\ hookPromise' = "resolved"
            /\ exits = FALSE
            /\ UNCHANGED <<knownEnvVars, uncaught, process>>
       ELSE /\ hookPromise' = "pending"
            /\ uncaught' = Append(uncaught, p.reason)
            /\ process' = IF exits THEN "exited" ELSE "running"
            /\ UNCHANGED knownEnvVars

\* The reactions attached to this.knownEnvVars, run when it is settled as p:
\*   .then(envVars => { knownEnvVars = envVars; resolve(); })
\*   .catch(err => { throw err; })
\*   .finally(() => clearTimeout(bailTimeoutId))
\* After a rejection the promise .finally() returns is rejected with no handler.
\* `timer` is the timer as armed by the hook, `exits` whether the runtime ends
\* the process on an unhandled rejection.
Reactions(p, timer, exits) ==
    /\ bailTimeout' = clearTimeout(timer)
    /\ IF p.state = "fulfilled"
       THEN /\ knownEnvVars' = [defined |-> TRUE, value |-> p.value]
            /\ hookPromise' = "resolved"
            /\ exits = FALSE
            /\ UNCHANGED <<uncaught, process>>
       ELSE /\ hookPromise' = "pending"
            /\ uncaught' = Append(uncaught, p.reason)
            /\ process' = IF exits THEN "exited" ELSE "running"
            /\ UNCHANGED knownEnvVars

\* compiler.hooks.beforeCompile.tapPromise: the host calls the tap
BeforeCompile ==
    /\ phase = "applied"
    /\ process = "running"
    /\ phase' = "beforeCompile"
    /\ LET timer == [state |-> "armed", delay |-> knownEnvVarsTimeout]
       IN  IF this_knownEnvVars.state = "pending"
           THEN /\ bailTimeout' = timer
                /\ hookPromise' = "pending"
                /\ UNCHANGED <<knownEnvVars, uncaught, process>>
           ELSE \E exits \in BOOLEAN : Reactions(this_knownEnvVars, timer, exits)
    /\ UNCHANGED <<options, thrown, knownEnvVarsTimeout, this_knownEnvVars,
                   foundUnrecognisedEnvVars, ignoreEnvVars, includePaths, excludePaths,
                   lastIndex, getSecretValue, errors, scanned>>

\* the callback given to SecretsManager.getSecretValue
settled(o) ==
    CASE o.kind = "err" -> Rejected(AwsError)
      [] o.kind = "malformed" -> Rejected(SecretStringError)
      [] OTHER -> Fulfilled(o.keys)

SecretsManagerCallback ==
    \E o \in AwsOutcomes, exits \in BOOLEAN :
        /\ getSecretValue.pending
        /\ process = "running"
        /\ getSecretValue' = [getSecretValue EXCEPT !.pending = FALSE]
        /\ this_knownEnvVars' = settled(o)
        /\ IF hookPromise = "pending"
           THEN Reactions(settled(o), bailTimeout, exits)
           ELSE \* nothing is attached to the promise yet
                /\ IF o.kind = "data"
                   THEN exits = FALSE /\ UNCHANGED <<uncaught, process>>
                   ELSE /\ uncaught' = Append(uncaught, settled(o).reason)
                        /\ process' = IF exits THEN "exited" ELSE "running"
                /\ UNCHANGED <<knownEnvVars, hookPromise, bailTimeout>>
        /\ UNCHANGED <<options, phase, thrown, knownEnvVarsTimeout,
                       foundUnrecognisedEnvVars, ignoreEnvVars, includePaths, excludePaths,
                       lastIndex, errors, scanned>>

\* the setTimeout callback: throw new Error(... timed out ...). The throw is
\* inside a timer callback, so it reaches the runtime as an uncaught exception:
\* the process ends unless an uncaughtException handler is installed.
BailTimeout ==
    \E exits \in BOOLEAN :
        /\ bailTimeout.state = "armed"
        /\ process = "running"
        /\ bailTimeout' = [bailTimeout EXCEPT !.state = "fired"]
        /\ uncaught' = Append(uncaught, TimeoutError)
        /\ process' = IF exits THEN "exited" ELSE "running"
        /\ UNCHANGED <<options, phase, thrown, knownEnvVarsTimeout, this_knownEnvVars,
                       foundUnrecognisedEnvVars, ignoreEnvVars, includePaths, excludePaths,
                       lastIndex, knownEnvVars, hookPromise, getSecretValue, errors, scanned>>

\* compiler.hooks.compilation: the host goes on once the beforeCompile tap's
\* promise is resolved, and tapParser is attached to the parsers
Compilation ==
    /\ phase = "beforeCompile"
    /\ hookPromise = "resolved"
    /\ process = "running"
    /\ phase' = "parsing"
    /\ UNCHANGED <<options, thrown, knownEnvVarsTimeout, this_knownEnvVars,
                   foundUnrecognisedEnvVars, ignoreEnvVars, includePaths, excludePaths,
                   lastIndex, knownEnvVars, bailTimeout, hookPromise, process, uncaught,
                   getSecretValue, errors, scanned>>

\* the MemberExpression visitor, on `process.env.<name>` found in `module`
MemberExpression ==
    \E name \in EventNames, module \in ModulePaths :
        /\ phase = "parsing"
        /\ process = "running"
        /\ Len(scanned) < MaxEvents
        /\ scanned' = Append(scanned, [name |-> name, module |-> module])
        /\ IF knownEnvVars.defined
           THEN LET r == isRecognisedEnvVar(knownEnvVars.value, name, module)
                IN  /\ lastIndex' = r.lastIndex
                    /\ foundUnrecognisedEnvVars' =
                          IF r.result THEN foundUnrecognisedEnvVars
                          ELSE set(foundUnrecognisedEnvVars, name, module)
                    /\ UNCHANGED uncaught
           ELSE \* undefined.includes(...)
                /\ uncaught' = Append(uncaught, TypeError)
                /\ UNCHANGED <<lastIndex, foundUnrecognisedEnvVars>>
        /\ UNCHANGED <<options, phase, thrown, knownEnvVarsTimeout, this_knownEnvVars,
                       ignoreEnvVars, includePaths, excludePaths, knownEnvVars, bailTimeout,
                       hookPromise, process, getSecretValue, errors>>

\* compiler.hooks.afterCompile
AfterCompile ==
    /\ phase = "parsing"
    /\ process = "running"
    /\ phase' = "done"
    /\ errors' = errors \o
          [i \in 1 .. Len(foundUnrecognisedEnvVars) |->
              UnrecognisedEnvVarError(foundUnrecognisedEnvVars[i].name,
                                      foundUnrecognisedEnvVars[i].module)]
    /\ UNCHANGED <<options, thrown, knownEnvVarsTimeout, this_knownEnvVars,
                   foundUnrecognisedEnvVars, ignoreEnvVars, includePaths, excludePaths,
                   lastIndex, knownEnvVars, bailTimeout, hookPromise, process, uncaught,
                   getSecretValue, scanned>>

Next ==
    \/ Constructor
    \/ Apply
    \/ BeforeCompile
    \/ SecretsManagerCallback
    \/ BailTimeout
    \/ Compilation
    \/ MemberExpression
    \/ AfterCompile

Spec == Init /\ [][Next]_vars

\* ================================================================== claims
\* the resolved known set
Known == IF this_knownEnvVars.state = "fulfilled" THEN Range(this_knownEnvVars.value) ELSE {}

\* some entry of a compiled field matches the input: a literal by its
\* string check, a pattern when the regular expression matches the input
matchesAny(checks, input) ==
    \E i \in 1 .. Len(checks) : applyCheck(checks[i], input, 0).result

Message(n) == <<"Unrecognised environment variable: ">> \o n
Diagnostics(n) == {i \in 1 .. Len(errors) : errors[i].message = Message(n)}
Accessed(n, m) == \E i \in 1 .. Len(scanned) : scanned[i] = [name |-> n, module |-> m]
InScope(m) == matchesAny(includePaths, m) /\ ~matchesAny(excludePaths, m)

\* C1: a name of the resolved known set is never put into the unrecognised
\* record and never gets a diagnostic, whatever the module paths of its accesses.
C1_KnownNeverFlagged ==
    \A n \in Known : ~has(foundUnrecognisedEnvVars, n) /\ Diagnostics(n) = {}

\* the scan is over, a known name was accessed from a module in scope, and
\* another name of the same build was reported
C1_Witness ==
    /\ phase = "done"
    /\ \E n \in Known, m \in ModulePaths : Accessed(n, m) /\ InScope(m)
    /\ Len(errors) > 0

\* C2 (as claimed): after the scan, a name that is not known, matched by no
\* ignore rule and accessed from a module in scope has exactly one diagnostic,
\* and the unrecognised record holds at most one entry per name.
C2_ExactlyOneDiagnostic ==
    /\ \A i, j \in 1 .. Len(foundUnrecognisedEnvVars) :
          foundUnrecognisedEnvVars[i].name = foundUnrecognisedEnvVars[j].name => i = j
    /\ phase = "done" =>
          \A n \in EventNames, m \in ModulePaths :
              (/\ Accessed(n, m)
               /\ n \notin Known
               /\ ~matchesAny(ignoreEnvVars, n)
               /\ InScope(m)) => Cardinality(Diagnostics(n)) = 1

\* C3 (as claimed): with no includePaths, after the scan every accessed name
\* that is not known, not ignored and accessed from a module no exclude entry
\* matches has a diagnostic.
C3_EmptyIncludeScansEverything ==
    (phase = "done" /\ includePaths = <<>>) =>
        \A n \in EventNames, m \in ModulePaths :
            (/\ Accessed(n, m)
             /\ n \notin Known
             /\ ~matchesAny(excludePaths, m)
             /\ ~matchesAny(ignoreEnvVars, n)) => Diagnostics(n) # {}

\* C4: with includePaths non-empty, an access from a module that no include
\* entry matches is classified recognised: the record is left as it was, so
\* every entry and every diagnostic refers to a module some include entry matches.
C4_OutsideIncludeRecognised ==
    includePaths # <<>> =>
        /\ \A k \in 1 .. Len(foundUnrecognisedEnvVars) :
              matchesAny(includePaths, foundUnrecognisedEnvVars[k].module)
        /\ \A i \in 1 .. Len(errors) : matchesAny(includePaths, errors[i].module)

\* the scan is over, includePaths is non-empty, and a name that is not known
\* was accessed only from modules outside it and has no diagnostic
C4_Witness ==
    /\ phase = "done"
    /\ includePaths # <<>>
    /\ \E i \in 1 .. Len(scanned) :
          /\ scanned[i].name \notin Known
          /\ ~matchesAny(ignoreEnvVars, scanned[i].name)
          /\ ~matchesAny(includePaths, scanned[i].module)
          /\ Diagnostics(scanned[i].name) = {}

\* C5: with includePaths=["/src"] and excludePaths=["/src/gen"], no entry and
\* no diagnostic refers to a module under /src/gen, and after the scan an
\* unknown, not ignored name accessed from a module under /src and not under
\* /src/gen has exactly one diagnostic, with the message
\* "Unrecognised environment variable: <name>".
SrcGenConfig ==
    /\ options.includePaths = Arr(<<Str(P_SRC)>>)
    /\ options.excludePaths = Arr(<<Str(P_SRC_GEN)>>)

C5_ExcludeOverridesInclude ==
    SrcGenConfig =>
        /\ \A k \in 1 .. Len(foundUnrecognisedEnvVars) :
              ~startsWith(foundUnrecognisedEnvVars[k].module, P_SRC_GEN)
        /\ \A i \in 1 .. Len(errors) : ~startsWith(errors[i].module, P_SRC_GEN)
        /\ phase = "done" =>
              \A n \in EventNames, m \in ModulePaths :
                  (/\ Accessed(n, m)
                   /\ n \notin Known
                   /\ ~matchesAny(ignoreEnvVars, n)
                   /\ startsWith(m, P_SRC)
                   /\ ~startsWith(m, P_SRC_GEN))
                  => /\ Cardinality(Diagnostics(n)) = 1
                     /\ \A i \in 1 .. Len(errors) :
                           errors[i].message = Message(n) => ~startsWith(errors[i].module, P_SRC_GEN)

\* the scan is over: UNKNOWN was accessed under /src/gen first and under /src
\* afterwards, and its one diagnostic refers to the module under /src
C5_Witness ==
    /\ SrcGenConfig
    /\ phase = "done"
    /\ scanned = <<[name |-> UNKNOWN, module |-> M_SRC_GENX], [name |-> UNKNOWN, module |-> M_SRC_X]>>
    /\ errors = <<UnrecognisedEnvVarError(UNKNOWN, M_SRC_X)>>

\* C6 (as claimed): a name that some ignoreEnvVars entry matches is never
\* put into the unrecognised record and never gets a diagnostic.
C6_IgnoredNeverFlagged ==
    \A n \in EventNames :
        matchesAny(ignoreEnvVars, n) => ~has(foundUnrecognisedEnvVars, n) /\ Diagnostics(n) = {}

\* C7 (as claimed): when the bail timer has fired, the promise of the
\* beforeCompile tap is rejected.
C7_TimeoutFailsHook ==
    bailTimeout.state = "fired" => hookPromise = "rejected"

\* C8 (as claimed): once the bail timer has fired, no access is classified
\* and the beforeCompile tap's promise is not resolved.
C8_NoScanAfterTimeout ==
    [][bailTimeout.state = "fired" => (scanned' = scanned /\ hookPromise' # "resolved")]_vars

\* C9 (as claimed): the bail timer's delay is options.knownEnvVarsTimeout
\* when that is given, and 5000 otherwise.
C9_TimerDelay ==
    bailTimeout.state # "none" =>
        bailTimeout.delay = IF options.knownEnvVarsTimeout.type = "number"
                            THEN options.knownEnvVarsTimeout.value
                            ELSE 5000

\* a descriptor with some, not all, of the required properties
PartialDescriptor ==
    /\ options.knownEnvVars.type = "object"
    /\ LET present == DOMAIN options.knownEnvVars.props \cap Range(AWSRequired)
       IN  present # {} /\ present # Range(AWSRequired)

\* the required properties an error message names
NamedProperties(message) == {k \in Range(AWSRequired) : \E i \in 1 .. Len(message) : message[i] = k}

\* C10 (as claimed): constructing with a partial descriptor throws an error
\* that names exactly the missing required properties, without a request.
C10_NamesMissingOnly ==
    (phase # "new" /\ PartialDescriptor) =>
        /\ phase = "threw"
        /\ thrown.name = "ValidateEnvVarsPluginBadArgsError"
        /\ NamedProperties(thrown.message) = Range(AWSRequired) \ DOMAIN options.knownEnvVars.props
        /\ getSecretValue.calls = 0

\* C10 (amended): constructing with a partial descriptor throws an error
\* that lists all four required properties, without a request.
C10_NamesAllRequired ==
    (phase # "new" /\ PartialDescriptor) =>
        /\ phase = "threw"
        /\ thrown.name = "ValidateEnvVarsPluginBadArgsError"
        /\ NamedProperties(thrown.message) = Range(AWSRequired)
        /\ getSecretValue.calls = 0

\* the constructor has thrown for a descriptor holding only region and secretId
C10_Witness ==
    /\ phase = "threw"
    /\ options.knownEnvVars.type = "object"
    /\ DOMAIN options.knownEnvVars.props = {"region", "secretId"}
    /\ thrown # NoError

\* C11 (as claimed): when the known set's promise is rejected before the
\* bail timer fires and the beforeCompile tap has run, the tap's promise is
\* rejected (the hook settles with the failure), and no access is classified.
C11_RejectionFailsHook ==
    (/\ this_knownEnvVars.state = "rejected"
     /\ hookPromise # "none"
     /\ bailTimeout.state # "fired")
    => (hookPromise = "rejected" /\ scanned = <<>>)

\* C12: an access is classified only when the known set's promise is
\* fulfilled and its value has been stored in knownEnvVars; no classification
\* runs against an undefined known set.
C12_ClassifiedAfterResolution ==
    [][scanned' # scanned =>
          /\ knownEnvVars.defined
          /\ this_knownEnvVars.state = "fulfilled"
          /\ knownEnvVars.value = this_knownEnvVars.value
          /\ TypeError \notin Range(uncaught')]_vars

\* an access has been classified in a build whose known set came from
\* SecretsManager, that is, was resolved after the constructor returned
C12_Witness ==
    /\ Len(scanned) > 0
    /\ getSecretValue.calls = 1
    /\ knownEnvVars.defined

\* C13: first occurrence wins. An entry of the unrecognised record never
\* changes once it is there; a new entry is the access classified in that
\* step, name and module; and the errors afterCompile appends are, entry by
\* entry, "Unrecognised environment variable: <name>" with the entry's module.
C13_FirstOccurrenceWins ==
    [][/\ Len(foundUnrecognisedEnvVars') >= Len(foundUnrecognisedEnvVars)
       /\ \A k \in 1 .. Len(foundUnrecognisedEnvVars) :
             foundUnrecognisedEnvVars'[k] = foundUnrecognisedEnvVars[k]
       /\ Len(foundUnrecognisedEnvVars') > Len(foundUnrecognisedEnvVars) =>
             /\ Len(foundUnrecognisedEnvVars') = Len(foundUnrecognisedEnvVars) + 1
             /\ Len(scanned') = Len(scanned) + 1
             /\ foundUnrecognisedEnvVars'[Len(foundUnrecognisedEnvVars')] = scanned'[Len(scanned')]
       /\ phase' = "done" =>
             /\ Len(errors') = Len(foundUnrecognisedEnvVars')
             /\ \A k \in 1 .. Len(errors') :
                   /\ errors'[k].message = Message(foundUnrecognisedEnvVars'[k].name)
                   /\ errors'[k].module = foundUnrecognisedEnvVars'[k].module]_vars

\* the scan is over: UNKNOWN was accessed from two modules in scope, and its
\* one diagnostic carries the first of them
C13_Witness ==
    /\ phase = "done"
    /\ options.includePaths = Arr(<<Str(P_SRC)>>)
    /\ options.excludePaths = Undefined
    /\ scanned = <<[name |-> UNKNOWN, module |-> M_SRC_GENX], [name |-> UNKNOWN, module |-> M_SRC_X]>>
    /\ errors = <<UnrecognisedEnvVarError(UNKNOWN, M_SRC_GENX)>>

\* the literal entries of an option array
Literals(opt) ==
    IF opt.type = "array"
    THEN {opt.elems[i].value : i \in {j \in 1 .. Len(opt.elems) : opt.elems[j].type = "string"}}
    ELSE {}

\* C14 (as claimed): literal entries of the name fields count after their
\* leading process.env. is stripped: once the known set is resolved from a
\* list, every entry's bare name is known; and the bare name of every literal
\* ignoreEnvVars entry is never put into the unrecognised record.
C14_LiteralsNormalised ==
    phase \notin {"new", "threw"} =>
        /\ (options.knownEnvVars.type = "array" /\ this_knownEnvVars.state = "fulfilled") =>
              \A v \in Literals(options.knownEnvVars) : stripProcessEnv(v) \in Known
        /\ \A v \in Literals(options.ignoreEnvVars) :
              ~has(foundUnrecognisedEnvVars, stripProcessEnv(v))

\* C14, the knownEnvVars half alone, which the code gives: an access to X is
\* never put into the unrecognised record when the list holds process.env.X
C14_KnownListNormalised ==
    (phase \notin {"new", "threw"} /\ options.knownEnvVars.type = "array") =>
        \A v \in Literals(options.knownEnvVars) :
            /\ stripProcessEnv(v) \in Known
            /\ ~has(foundUnrecognisedEnvVars, stripProcessEnv(v))

\* C15: when the known set's promise is settled, with a value or with a
\* failure, before the bail timer has fired, then from the moment the tap's
\* reactions have run the timer is cancelled and no timeout error is raised.
C15_SettledCancelsTimer ==
    [][(/\ bailTimeout.state # "fired"
        /\ this_knownEnvVars'.state # "pending"
        /\ hookPromise' # "none")
       => (/\ bailTimeout'.state = "cleared"
           /\ TimeoutError \notin Range(uncaught'))]_vars

\* the SecretsManager request failed while the timer was armed: the timer is
\* cancelled and the process goes on
C15_Witness ==
    /\ this_knownEnvVars.state = "rejected"
    /\ getSecretValue.calls = 1
    /\ bailTimeout.state = "cleared"
    /\ process = "running"

=============================================================================
